---- MODULE Spec2Model ----
(***************************************************************************)
(* Model of the ah_config library (src/libraries/ah_config/src/lib.rs):    *)
(* the layered configuration resolver of ACARS Hub.                        *)
(*                                                                         *)
(* Strings are sequences of one-character strings, so that quoting,        *)
(* TOML string scanning and bool parsing are computed character by         *)
(* character.  Rust's Option<T> is modelled as a sequence of length 0      *)
(* (None) or 1 (Some(x)); Result<T, E> as a record with an `ok` flag.      *)
(***************************************************************************)
EXTENDS Naturals, Sequences, FiniteSets, TLC

VARIABLES
    env,        \* process environment: variable name -> Option<String>
    files,      \* file system: path -> Option<file text>
    ah_config,  \* Option<AhConfig>: the object the last AhConfig::new() returned
    outcome,    \* how the last AhConfig::new() ended
    lastOp,     \* the operation performed by the last step
    steps       \* how many operations have been performed

vars == <<env, files, ah_config, outcome, lastOp, steps>>

----------------------------------------------------------------------------
(* Option / Result encodings *)

None == <<>>
Some(x) == <<x>>
IsSome(o) == Len(o) = 1
Unwrap(o) == o[1]

Ok(x) == [ok |-> TRUE, val |-> x]
Err(kind) == [ok |-> FALSE, err |-> kind]

----------------------------------------------------------------------------
(* String literals of the source, spelled character by character *)

Q == "\""
BSL == "\\"

S_true == <<"t", "r", "u", "e">>
S_false == <<"f", "a", "l", "s", "e">>
S_yes == <<"y", "e", "s">>
S_info == <<"i", "n", "f", "o">>
S_debug == <<"d", "e", "b", "u", "g">>
S_trace == <<"t", "r", "a", "c", "e">>
S_sqlite == <<"s", "q", "l", "i", "t", "e", ":", "/", "/", "a", "c", "a", "r", "s", ".", "d", "b">>
\* a Windows-style database location, C:\db
S_windows == <<"C", ":", BSL, "d", "b">>
\* a database location with a backslash followed by the letter t, a\tb
S_tabbed == <<"a", BSL, "t", "b">>

\* "./ah_config.toml", the fixed default path
DefaultPath == <<".", "/", "a", "h", "_", "c", "o", "n", "f", "i", "g", ".", "t", "o", "m", "l">>
\* values given to AH_TEST_ENV_PATH and AH_CONFIG_PATH
TestPath == <<"t", ".", "t", "o", "m", "l">>
DockerPath == <<"d", ".", "t", "o", "m", "l">>

Paths == {DefaultPath, TestPath, DockerPath}

----------------------------------------------------------------------------
(* The option schema: struct AhConfig *)

StringOptions == {"database_url", "log_level"}
BoolOptions == {"enable_acars", "enable_vdlm2", "enable_hfdl", "enable_iridium",
                "enable_inmarsat", "enable_adsb"}
OptionNames == StringOptions \cup BoolOptions

\* declaration order of the fields, the order get_config_as_toml_string writes them
OptionOrder == <<"database_url", "enable_acars", "enable_vdlm2", "enable_hfdl",
                 "enable_iridium", "enable_inmarsat", "enable_adsb", "log_level">>

\* the environment variables the program reads
PathVars == {"AH_TEST_ENV_PATH", "AH_CONFIG_PATH"}
OptionVars == {"AH_DATABASE_URL", "AH_ENABLE_ACARS", "AH_ENABLE_VDLM2", "AH_ENABLE_HFDL",
               "AH_ENABLE_IRIDIUM", "AH_ENABLE_INMARSAT", "AH_ENABLE_ADSB", "AH_LOG_LEVEL"}
EnvNames == PathVars \cup OptionVars

\* config::Environment::with_prefix("AH"): the key a variable AH_<NAME> yields is
\* <name>, the prefix and its separator stripped and the rest lowercased
EnvKey == [n \in EnvNames |->
    CASE n = "AH_TEST_ENV_PATH" -> "test_env_path"
      [] n = "AH_CONFIG_PATH" -> "config_path"
      [] n = "AH_DATABASE_URL" -> "database_url"
      [] n = "AH_ENABLE_ACARS" -> "enable_acars"
      [] n = "AH_ENABLE_VDLM2" -> "enable_vdlm2"
      [] n = "AH_ENABLE_HFDL" -> "enable_hfdl"
      [] n = "AH_ENABLE_IRIDIUM" -> "enable_iridium"
      [] n = "AH_ENABLE_INMARSAT" -> "enable_inmarsat"
      [] n = "AH_ENABLE_ADSB" -> "enable_adsb"
      [] n = "AH_LOG_LEVEL" -> "log_level"]

\* the variable that overrides an option
EnvVarOf(k) == CHOOSE n \in OptionVars : EnvKey[n] = k

----------------------------------------------------------------------------
(* File text.  A file is a sequence of `key = value` lines; a line keeps   *)
(* its indentation, its key and the raw characters right of "= ".          *)

Line(indent, key, raw) == [indent |-> indent, key |-> key, raw |-> raw]

\* format!("\"{}\"", s): the string between two quote characters, nothing escaped
Quoted(s) == <<Q>> \o s \o <<Q>>

\* format!("{}", b) of a bool
BoolToString(b) == IF b THEN S_true ELSE S_false

\* indentation of the lines of the raw string literal in write_default_config
DefaultIndent == 24

\* the hard-coded text write_default_config writes (its blank first line and
\* trailing spaces are whitespace the TOML reader skips)
DefaultConfigText ==
    << Line(DefaultIndent, "database_url", Quoted(S_sqlite)),
       Line(DefaultIndent, "enable_acars", S_false),
       Line(DefaultIndent, "enable_vdlm2", S_false),
       Line(DefaultIndent, "enable_hfdl", S_false),
       Line(DefaultIndent, "enable_iridium", S_false),
       Line(DefaultIndent, "enable_inmarsat", S_false),
       Line(DefaultIndent, "enable_adsb", S_false),
       Line(DefaultIndent, "log_level", Quoted(S_info)) >>

----------------------------------------------------------------------------
(* AhConfig::get_file_path *)

\* the deployment variable consulted before the test variable
get_file_path_DockerFirst(e) ==
    IF IsSome(e["AH_CONFIG_PATH"]) THEN Unwrap(e["AH_CONFIG_PATH"])
    ELSE IF IsSome(e["AH_TEST_ENV_PATH"]) THEN Unwrap(e["AH_TEST_ENV_PATH"])
    ELSE DefaultPath

get_file_path(e) ==
    IF IsSome(e["AH_TEST_ENV_PATH"]) THEN Unwrap(e["AH_TEST_ENV_PATH"])
    ELSE IF IsSome(e["AH_CONFIG_PATH"]) THEN Unwrap(e["AH_CONFIG_PATH"])
    ELSE DefaultPath

\* defaults with one flag switched on
AhConfigDefault_Vdlm2On(e) ==
    [ database_url |-> S_sqlite,
      enable_acars |-> FALSE,
      enable_vdlm2 |-> TRUE,
      enable_hfdl |-> FALSE,
      enable_iridium |-> FALSE,
      enable_inmarsat |-> FALSE,
      enable_adsb |-> FALSE,
      log_level |-> S_info,
      config_file |-> get_file_path(e) ]

\* impl Default for AhConfig
AhConfigDefault(e) ==
    [ database_url |-> S_sqlite,
      enable_acars |-> FALSE,
      enable_vdlm2 |-> FALSE,
      enable_hfdl |-> FALSE,
      enable_iridium |-> FALSE,
      enable_inmarsat |-> FALSE,
      enable_adsb |-> FALSE,
      log_level |-> S_info,
      config_file |-> get_file_path(e) ]

----------------------------------------------------------------------------
(* The config crate as get_config drives it: a TOML file source, then the  *)
(* AH-prefixed environment source, then deserialization to a              *)
(* HashMap<String, String>.                                                *)

\* the escapes of a TOML basic string: the character after a backslash, and
\* the character it stands for (\uXXXX needs four hex digits, which no string
\* of this model holds after a backslash)
Escapes == [c \in {"t", "n", "r", "f", "b", Q, BSL} |->
    CASE c = "t" -> "\t"
      [] c = "n" -> "\n"
      [] c = "r" -> "\r"
      [] c = "f" -> "\f"
      [] c = "b" -> "U+0008"
      [] c = Q -> Q
      [] c = BSL -> BSL]

\* scan a TOML basic string from position i (after the opening quote) to its
\* closing quote, which has to end the line
RECURSIVE ScanBasicString(_, _, _)
ScanBasicString(raw, i, acc) ==
    IF i > Len(raw) THEN Err("ParseError")
    ELSE IF raw[i] = Q
         THEN IF i = Len(raw) THEN Ok([kind |-> "string", s |-> acc, b |-> FALSE])
              ELSE Err("ParseError")
    ELSE IF raw[i] = BSL
         THEN IF i + 1 <= Len(raw) /\ raw[i + 1] \in DOMAIN Escapes
              THEN ScanBasicString(raw, i + 2, Append(acc, Escapes[raw[i + 1]]))
              ELSE Err("ParseError")
    ELSE ScanBasicString(raw, i + 1, Append(acc, raw[i]))

\* the TOML value right of "= ": a boolean literal or a basic string
ParseTomlValue(raw) ==
    IF raw = S_true THEN Ok([kind |-> "bool", s |-> <<>>, b |-> TRUE])
    ELSE IF raw = S_false THEN Ok([kind |-> "bool", s |-> <<>>, b |-> FALSE])
    ELSE IF raw # <<>> /\ raw[1] = Q THEN ScanBasicString(raw, 2, <<>>)
    ELSE Err("ParseError")

\* config::Value::into_string, which try_deserialize applies to every value
\* of the HashMap<String, String>
into_string(v) == IF v.kind = "bool" THEN BoolToString(v.b) ELSE v.s

\* config::File::with_name(file_path): the table of the file, or an error when
\* the file is missing, a line does not parse or a key is defined twice
FileSource(file) ==
    IF ~IsSome(file) THEN Err("FileNotFound")
    ELSE LET text == Unwrap(file)
             idx == 1 .. Len(text)
         IN IF \E i \in idx : ~ParseTomlValue(text[i].raw).ok
            THEN Err("ParseError")
            ELSE IF \E i, j \in idx : i # j /\ text[i].key = text[j].key
            THEN Err("ParseError")
            ELSE Ok([k \in {text[i].key : i \in idx} |->
                        LET i == CHOOSE i \in idx : text[i].key = k
                        IN ParseTomlValue(text[i].raw).val])

\* a bootstrap that forgets the existence check
write_default_config_Always(file_path, fs) ==
    [fs EXCEPT ![file_path] = Some(DefaultConfigText)]

\* a bootstrap that also regenerates a file it cannot parse
write_default_config_Regenerate(file_path, fs) ==
    IF ~IsSome(fs[file_path]) \/ ~FileSource(fs[file_path]).ok
    THEN [fs EXCEPT ![file_path] = Some(DefaultConfigText)]
    ELSE fs

\* AhConfig::write_default_config: the file system after the call
write_default_config(file_path, fs) ==
    IF ~IsSome(fs[file_path])
    THEN [fs EXCEPT ![file_path] = Some(DefaultConfigText)]
    ELSE fs

\* config::Environment::with_prefix("AH"): one string entry per set variable
EnvironmentSource(e) ==
    LET set == {n \in EnvNames : IsSome(e[n])}
    IN [k \in {EnvKey[n] : n \in set} |->
           LET n == CHOOSE n \in set : EnvKey[n] = k
           IN [kind |-> "string", s |-> Unwrap(e[n]), b |-> FALSE]]

\* the two sources added in the other order: the file overrides the environment
BuildConfig_FileWins(file, e) ==
    LET f == FileSource(file)
        v == EnvironmentSource(e)
    IN IF ~f.ok THEN f
       ELSE Ok([k \in DOMAIN f.val \cup DOMAIN v |->
                   into_string(IF k \in DOMAIN f.val THEN f.val[k] ELSE v[k])])

\* Config::builder().add_source(file).add_source(environment).build() and
\* try_deserialize: a source added later overrides an earlier one key by key
BuildConfig(file, e) ==
    LET f == FileSource(file)
        v == EnvironmentSource(e)
    IN IF ~f.ok THEN f
       ELSE Ok([k \in DOMAIN f.val \cup DOMAIN v |->
                   into_string(IF k \in DOMAIN v THEN v[k] ELSE f.val[k])])

\* AhConfig::get_config: the file system after the call and the raw map
get_config(file_path, e, fs) ==
    LET fs1 == write_default_config(file_path, fs)
    IN [files |-> fs1, result |-> BuildConfig(fs1[file_path], e)]

----------------------------------------------------------------------------
(* The resolver *)

\* a parse that falls back to false (unwrap_or_default) instead of failing
ParseBool_Lenient(s) == Ok(s = S_true)

\* str::parse::<bool>: exactly "true" or "false"
ParseBool(s) ==
    IF s = S_true THEN Ok(TRUE)
    ELSE IF s = S_false THEN Ok(FALSE)
    ELSE Err("CoercionError")

\* the field of a bool option in get_and_validate_config: the parsed map entry
\* if the map has the key, else the default (call only when the entry parses)
BoolField(config, k, default) ==
    IF k \in DOMAIN config THEN ParseBool(config[k]).val ELSE default

\* the field of a string option in get_and_validate_config
StringField(config, k, default) ==
    IF k \in DOMAIN config THEN config[k] ELSE default

\* the overlay of the raw map on AhConfig::default() in get_and_validate_config;
\* an unwrap of a failed parse panics
Overlay(config, e) ==
    LET d == AhConfigDefault(e)
    IN IF \E k \in BoolOptions : k \in DOMAIN config /\ ~ParseBool(config[k]).ok
       THEN Err("CoercionError")
       ELSE Ok([ database_url |-> StringField(config, "database_url", d.database_url),
                 enable_acars |-> BoolField(config, "enable_acars", d.enable_acars),
                 enable_vdlm2 |-> BoolField(config, "enable_vdlm2", d.enable_vdlm2),
                 enable_hfdl |-> BoolField(config, "enable_hfdl", d.enable_hfdl),
                 enable_iridium |-> BoolField(config, "enable_iridium", d.enable_iridium),
                 enable_inmarsat |-> BoolField(config, "enable_inmarsat", d.enable_inmarsat),
                 enable_adsb |-> BoolField(config, "enable_adsb", d.enable_adsb),
                 log_level |-> StringField(config, "log_level", d.log_level),
                 config_file |-> d.config_file ])

\* AhConfig::get_and_validate_config (AhConfig::new): the file system after the
\* call and the configuration, or the error the call panics with
get_and_validate_config(e, fs) ==
    LET file_path == get_file_path(e)
        got == get_config(file_path, e, fs)
    IN [files |-> got.files,
        result |-> IF got.result.ok THEN Overlay(got.result.val, e) ELSE got.result]

\* AhConfig::get_config_as_toml_string
get_config_as_toml_string(c) ==
    << Line(0, "database_url", Quoted(c.database_url)),
       Line(0, "enable_acars", BoolToString(c.enable_acars)),
       Line(0, "enable_vdlm2", BoolToString(c.enable_vdlm2)),
       Line(0, "enable_hfdl", BoolToString(c.enable_hfdl)),
       Line(0, "enable_iridium", BoolToString(c.enable_iridium)),
       Line(0, "enable_inmarsat", BoolToString(c.enable_inmarsat)),
       Line(0, "enable_adsb", BoolToString(c.enable_adsb)),
       Line(0, "log_level", Quoted(c.log_level)) >>

\* a persist that, like the bootstrap, leaves an existing file alone
write_config_IfAbsent(c, e, fs) ==
    IF ~IsSome(fs[get_file_path(e)])
    THEN [fs EXCEPT ![get_file_path(e)] = Some(get_config_as_toml_string(c))]
    ELSE fs

\* AhConfig::write_config: the file system after the call
write_config(c, e, fs) ==
    [fs EXCEPT ![get_file_path(e)] = Some(get_config_as_toml_string(c))]

----------------------------------------------------------------------------
(* Inputs *)

\* how many operations a behaviour performs
MaxSteps == 4

\* the values the environment gives a variable
EnvValues(n) ==
    CASE n = "AH_TEST_ENV_PATH" -> {TestPath}
      [] n = "AH_CONFIG_PATH" -> {DockerPath}
      [] n = "AH_DATABASE_URL" -> {S_windows, S_tabbed}
      [] n = "AH_LOG_LEVEL" -> {S_trace}
      [] n = "AH_ENABLE_ACARS" -> {S_true, S_yes}
      [] n = "AH_ENABLE_ADSB" -> {S_true, S_false}
      [] n = "AH_ENABLE_HFDL" -> {S_false}
      [] OTHER -> {S_true}

\* files an operator left on disk before the program runs
PartialText ==
    << Line(0, "log_level", Quoted(S_debug)), Line(0, "enable_adsb", S_false) >>
\* a boolean option given the string "yes"
YesText == << Line(0, "enable_acars", Quoted(S_yes)) >>
\* not TOML: a bare word as a value
BrokenText == << Line(0, "enable_hfdl", S_yes) >>
EmptyText == << >>

InitTexts == {PartialText, YesText, BrokenText, EmptyText}

----------------------------------------------------------------------------
(* The state machine *)

Op(name, path, old) == [op |-> name, path |-> path, old |-> old]

\* one more operation, while the behaviour has operations left
Step == steps < MaxSteps /\ steps' = steps + 1

\* before the first AhConfig::new(): an empty environment, and at most one file
\* on disk, left by the operator at one of the three paths
Init ==
    /\ env = [n \in EnvNames |-> None]
    /\ \E p \in Paths : \E f \in {None} \cup {Some(t) : t \in InitTexts} :
           files = [q \in Paths |-> IF q = p THEN f ELSE None]
    /\ ah_config = None
    /\ outcome = "Uninitialized"
    /\ lastOp = Op("start", DefaultPath, None)
    /\ steps = 0

\* std::env::set_var by the operator or a test
SetVar(n, v) ==
    /\ Step
    /\ env' = [env EXCEPT ![n] = Some(v)]
    /\ lastOp' = Op("set_var", DefaultPath, None)
    /\ UNCHANGED <<files, ah_config, outcome>>

\* std::env::remove_var
RemoveVar(n) ==
    /\ Step
    /\ IsSome(env[n])
    /\ env' = [env EXCEPT ![n] = None]
    /\ lastOp' = Op("remove_var", DefaultPath, None)
    /\ UNCHANGED <<files, ah_config, outcome>>

\* AhConfig::new()
New ==
    LET r == get_and_validate_config(env, files)
        path == get_file_path(env)
    IN /\ Step
       /\ files' = r.files
       /\ ah_config' = IF r.result.ok THEN Some(r.result.val) ELSE None
       /\ outcome' = IF r.result.ok THEN "Resolved" ELSE r.result.err
       /\ lastOp' = Op("new", path, files[path])
       /\ UNCHANGED env

\* ah_config.write_config() on the object AhConfig::new() returned
WriteConfig ==
    /\ Step
    /\ IsSome(ah_config)
    /\ files' = write_config(Unwrap(ah_config), env, files)
    /\ lastOp' = Op("write_config", get_file_path(env), files[get_file_path(env)])
    /\ UNCHANGED <<env, ah_config, outcome>>

\* AhConfig::write_default_config(path) called on its own
WriteDefaultConfig(path) ==
    /\ Step
    /\ files' = write_default_config(path, files)
    /\ lastOp' = Op("write_default_config", path, files[path])
    /\ UNCHANGED <<env, ah_config, outcome>>

Next ==
    \/ \E n \in EnvNames : \E v \in EnvValues(n) : SetVar(n, v)
    \/ \E n \in EnvNames : RemoveVar(n)
    \/ New
    \/ WriteConfig
    \/ \E path \in Paths : WriteDefaultConfig(path)

Spec == Init /\ [][Next]_vars

----------------------------------------------------------------------------
(* Vocabulary of the properties *)

IsBoolLiteral(s) == s \in {S_true, S_false}

\* the typed value of a raw string for option k
Typed(k, s) == IF k \in BoolOptions THEN s = S_true ELSE s

\* the compiled-in default of option k, as the documentation lists them
CompiledDefault(k) ==
    CASE k = "database_url" -> S_sqlite
      [] k = "log_level" -> S_info
      [] OTHER -> FALSE

KeysOf(text) == {text[i].key : i \in 1 .. Len(text)}

\* the environment without its option variables, and without its path variables
WithoutOptionVars(e) == [n \in EnvNames |-> IF n \in OptionVars THEN None ELSE e[n]]
WithoutPathVars(e) == [n \in EnvNames |-> IF n \in PathVars THEN None ELSE e[n]]

EnvSet(k) == IsSome(env[EnvVarOf(k)])
EnvValue(k) == Unwrap(env[EnvVarOf(k)])

\* the path get_file_path is documented to choose
ExpectedPath ==
    CASE IsSome(env["AH_TEST_ENV_PATH"]) -> Unwrap(env["AH_TEST_ENV_PATH"])
      [] ~IsSome(env["AH_TEST_ENV_PATH"]) /\ IsSome(env["AH_CONFIG_PATH"]) ->
             Unwrap(env["AH_CONFIG_PATH"])
      [] OTHER -> DefaultPath

----------------------------------------------------------------------------
\* C1: after AhConfig::new() on a file that parses, with every boolean option's
\* effective raw value a boolean literal, the call returns a configuration in
\* which every option whose AH_ variable is set holds the variable's value, not
\* the file's, and every option without a variable that the file sets holds the
\* file's value.
C1_EnvOverridesFile ==
    lastOp.op = "new" =>
        LET f == FileSource(files[lastOp.path])
            Supplied(k) == EnvSet(k) \/ k \in DOMAIN f.val
            Raw(k) == IF EnvSet(k) THEN EnvValue(k) ELSE into_string(f.val[k])
        IN (f.ok /\ \A k \in BoolOptions : Supplied(k) => IsBoolLiteral(Raw(k))) =>
               /\ outcome = "Resolved"
               /\ IsSome(ah_config)
               /\ \A k \in OptionNames :
                      /\ EnvSet(k) => Unwrap(ah_config)[k] = Typed(k, EnvValue(k))
                      /\ (~EnvSet(k) /\ k \in DOMAIN f.val) =>
                             Unwrap(ah_config)[k] = Typed(k, into_string(f.val[k]))

\* the file sets enable_adsb = false, AH_ENABLE_ADSB=true, and the resolved flag is true
C1_Witness ==
    /\ lastOp.op = "new"
    /\ lastOp.old = Some(PartialText)
    /\ env["AH_ENABLE_ADSB"] = Some(S_true)
    /\ outcome = "Resolved"
    /\ Unwrap(ah_config).enable_adsb = TRUE

\* C2: after a successful AhConfig::new(), every option that neither the file
\* found at the start of the call nor the environment supplies holds its
\* compiled-in default (database_url "sqlite://acars.db", every enable_* false,
\* log_level "info"); with no file at the start and no option variable set, the
\* call succeeds and returns AhConfig::default().
C2_Defaults ==
    lastOp.op = "new" =>
        /\ outcome = "Resolved" =>
               \A k \in OptionNames :
                   (~EnvSet(k) /\ (~IsSome(lastOp.old) \/ k \notin KeysOf(Unwrap(lastOp.old))))
                       => Unwrap(ah_config)[k] = CompiledDefault(k)
        /\ (~IsSome(lastOp.old) /\ \A k \in OptionNames : ~EnvSet(k)) =>
               /\ outcome = "Resolved"
               /\ ah_config = Some(AhConfigDefault(env))
               /\ \A k \in OptionNames : Unwrap(ah_config)[k] = CompiledDefault(k)

\* a file with only log_level and enable_adsb, no option variable: the other six
\* options resolve to their defaults
C2_Witness ==
    /\ lastOp.op = "new"
    /\ lastOp.old = Some(PartialText)
    /\ \A k \in OptionNames : ~EnvSet(k)
    /\ outcome = "Resolved"
    /\ Unwrap(ah_config).log_level = S_debug
    /\ Unwrap(ah_config).database_url = S_sqlite

\* C3: a call of write_default_config(path), on its own or as the first step
\* of AhConfig::new(), writes the hard-coded defaults to path exactly when no
\* file is there, leaves an existing file (valid, malformed or empty) and every
\* other path as they were, and a second call in a row on the same path writes
\* nothing.
C3_Bootstrap ==
    [][ lastOp'.op \in {"write_default_config", "new"} =>
            /\ \A q \in Paths \ {lastOp'.path} : files'[q] = files[q]
            /\ IsSome(files[lastOp'.path]) => files' = files
            /\ ~IsSome(files[lastOp'.path]) =>
                   files'[lastOp'.path] = Some(DefaultConfigText)
            /\ (lastOp.op = "write_default_config" /\ lastOp.path = lastOp'.path) =>
                   files' = files
      ]_vars

\* a second call on a path that held no file at first: the defaults file of the
\* first call is there before and after
C3_Witness ==
    /\ lastOp.op = "write_default_config"
    /\ lastOp.old = Some(DefaultConfigText)
    /\ files[lastOp.path] = Some(DefaultConfigText)

\* C4, as stated: whenever the file or the AH_ variable supplies, for a boolean
\* option, a raw value that is no boolean literal, AhConfig::new() fails with a
\* CoercionError, returns nothing and leaves an existing file unchanged.
C4_AnySourceFails ==
    lastOp.op = "new" =>
        LET f == FileSource(files[lastOp.path])
        IN (f.ok /\ \E k \in BoolOptions :
                       \/ EnvSet(k) /\ ~IsBoolLiteral(EnvValue(k))
                       \/ k \in DOMAIN f.val /\ ~IsBoolLiteral(into_string(f.val[k]))) =>
               /\ outcome = "CoercionError"
               /\ ah_config = None
               /\ IsSome(lastOp.old) => files[lastOp.path] = lastOp.old

\* C4, amended: when the file parses and the effective raw value of a boolean
\* option (the AH_ variable's value if the variable is set, else the file's
\* value) is no boolean literal, AhConfig::new() fails at the coercion, returns
\* no configuration, and leaves an existing file unchanged; no failed call
\* returns a configuration.
C4_EffectiveValueFails ==
    lastOp.op = "new" =>
        LET f == FileSource(files[lastOp.path])
            Supplied(k) == EnvSet(k) \/ k \in DOMAIN f.val
            Raw(k) == IF EnvSet(k) THEN EnvValue(k) ELSE into_string(f.val[k])
        IN /\ (f.ok /\ \E k \in BoolOptions : Supplied(k) /\ ~IsBoolLiteral(Raw(k))) =>
                  /\ outcome = "CoercionError"
                  /\ ah_config = None
                  /\ IsSome(lastOp.old) => files[lastOp.path] = lastOp.old
           /\ outcome # "Resolved" => ah_config = None

\* the file holds enable_acars = "yes": the call fails and the file is as it was
C4_Witness ==
    /\ lastOp.op = "new"
    /\ lastOp.old = Some(YesText)
    /\ ~EnvSet("enable_acars")
    /\ outcome = "CoercionError"
    /\ ah_config = None
    /\ files[lastOp.path] = Some(YesText)

C6_ResolvedValuesPersisted ==
    (lastOp.op = "new" /\ ~IsSome(lastOp.old) /\ outcome = "Resolved") =>
        LET again == get_and_validate_config(WithoutOptionVars(env), files).result
        IN again.ok /\ again.val = Unwrap(ah_config)

\* C7: after write_config of a configuration whose strings hold no quote
\* character, resolving again from the written file with no option variable set
\* succeeds and reproduces every option field.
C7_RoundTrip ==
    (/\ lastOp.op = "write_config"
     /\ \A k \in StringOptions :
            \A i \in 1 .. Len(Unwrap(ah_config)[k]) : Unwrap(ah_config)[k][i] # Q) =>
        LET again == get_and_validate_config(WithoutOptionVars(env), files).result
        IN /\ again.ok
           /\ \A k \in OptionNames : again.val[k] = Unwrap(ah_config)[k]

\* C8: write_config replaces the file at get_file_path() by exactly the eight
\* lines of the current configuration, in declaration order, strings quoted and
\* booleans as literals, whatever was there, and leaves every other path, the
\* configuration object, the environment and the resolution outcome as they were.
C8_PersistOverwrites ==
    [][ lastOp'.op = "write_config" =>
            LET p == ExpectedPath
                c == Unwrap(ah_config)
                text == Unwrap(files'[p])
            IN /\ IsSome(files'[p])
               /\ Len(text) = Len(OptionOrder)
               /\ \A i \in 1 .. Len(OptionOrder) :
                      /\ text[i].key = OptionOrder[i]
                      /\ text[i].raw = IF OptionOrder[i] \in BoolOptions
                                       THEN BoolToString(c[OptionOrder[i]])
                                       ELSE Quoted(c[OptionOrder[i]])
               /\ \A q \in Paths \ {p} : files'[q] = files[q]
               /\ ah_config' = ah_config
               /\ env' = env
               /\ outcome' = outcome
      ]_vars

\* a persist over an existing malformed file
C8_Witness ==
    /\ lastOp.op = "write_config"
    /\ lastOp.old = Some(YesText)
    /\ files[lastOp.path] = Some(get_config_as_toml_string(Unwrap(ah_config)))

\* C9: get_file_path returns the value of AH_TEST_ENV_PATH if set, else the
\* value of AH_CONFIG_PATH if set, else "./ah_config.toml"; AhConfig::new()
\* works on that path; and the two path variables, which the environment source
\* also hands over as keys, change no option of the resolved configuration.
C9_FilePath ==
    /\ get_file_path(env) = ExpectedPath
    /\ get_file_path(env) \in Paths
    /\ lastOp.op = "new" =>
           /\ lastOp.path = ExpectedPath
           /\ IsSome(files[ExpectedPath])
           /\ outcome = "Resolved" =>
                  /\ Unwrap(ah_config).config_file = ExpectedPath
                  /\ LET raw == BuildConfig(files[ExpectedPath], WithoutPathVars(env))
                     IN /\ raw.ok
                        /\ \A k \in OptionNames :
                               Unwrap(ah_config)[k] = Overlay(raw.val, env).val[k]

\* both path variables set: the test path is the one resolved
C9_Witness ==
    /\ lastOp.op = "new"
    /\ env["AH_TEST_ENV_PATH"] = Some(TestPath)
    /\ env["AH_CONFIG_PATH"] = Some(DockerPath)
    /\ lastOp.path = TestPath
    /\ outcome = "Resolved"

\* C10: write_config writes to the path stored in the configuration's
\* config_file field and changes the file at no other path.
C10_PersistPath ==
    [][ lastOp'.op = "write_config" =>
            \A p \in Paths \ {Unwrap(ah_config).config_file} : files'[p] = files[p]
      ]_vars

====
